---- MODULE Spec2Model ----
(***************************************************************************)
(* A model of core_execute.actionlib.action.BaseAction and of the NoOp     *)
(* concrete action: the status setters, the Context helpers, the           *)
(* execute()/check() wrappers, the lifecycle hook dispatcher and the       *)
(* status propagation to the external tracking collaborator.               *)
(*                                                                         *)
(* Text is a sequence of tokens (strings); a label such as                 *)
(* "p1:action/a" is <<"p1", ":action", "/", "a">>, so that split, replace  *)
(* and format act on it as the Python string methods do.  A value that     *)
(* may be None is wrapped: Str(text) or None.  A dict is a set of          *)
(* <<key, value>> pairs with unique keys.                                  *)
(***************************************************************************)
EXTENDS Naturals, Sequences, FiniteSets, TLC

----------------------------------------------------------------------------
(* Bounds of the model *)

\* state and output values written by the helpers are 1..MaxValue
MaxValue == 2
\* the external collaborator's calls numbered 1..MaxExtCalls within one
\* operation are the ones that may raise
MaxExtCalls == 2

----------------------------------------------------------------------------
(* Values *)

None == [t |-> "none", v |-> << >>]
Str(s) == [t |-> "str", v |-> s]
\* Python truthiness of an optional string
Truthy(x) == x.t = "str" /\ x.v # << >>

NoExc == [type |-> "", msg |-> << >>]
Exc(type, msg) == [type |-> type, msg |-> msg]

----------------------------------------------------------------------------
(* Python string methods on token sequences *)

MatchAt(s, i, pat) ==
    /\ i + Len(pat) - 1 <= Len(s)
    /\ \A j \in 1..Len(pat) : s[i + j - 1] = pat[j]

RECURSIVE ReplaceFrom(_, _, _, _)
ReplaceFrom(s, i, old, new) ==
    IF i > Len(s) THEN << >>
    ELSE IF MatchAt(s, i, old)
         THEN new \o ReplaceFrom(s, i + Len(old), old, new)
         ELSE <<s[i]>> \o ReplaceFrom(s, i + 1, old, new)

\* str.replace(old, new): every non-overlapping occurrence
Replace(s, old, new) == ReplaceFrom(s, 1, old, new)

\* str.split(sep, 1): at most one split, at the first separator
Split1(s, sep) ==
    IF \E i \in 1..Len(s) : s[i] = sep
    THEN LET i == CHOOSE i \in 1..Len(s) :
                    s[i] = sep /\ \A j \in 1..(i - 1) : s[j] # sep
         IN  <<SubSeq(s, 1, i - 1), SubSeq(s, i + 1, Len(s))>>
    ELSE <<s>>

RECURSIVE Split(_, _)
\* str.split(sep)
Split(s, sep) ==
    LET p == Split1(s, sep)
    IN  IF Len(p) = 1 THEN <<s>> ELSE <<p[1]>> \o Split(p[2], sep)

RECURSIVE Join(_, _)
\* sep.join(parts)
Join(parts, sep) ==
    IF parts = << >> THEN << >>
    ELSE IF Len(parts) = 1 THEN parts[1]
    ELSE parts[1] \o <<sep>> \o Join(Tail(parts), sep)

\* list slice parts[0:n]
Slice(parts, n) == SubSeq(parts, 1, IF n < Len(parts) THEN n ELSE Len(parts))

\* "tok in s"
Contains(s, tok) == \E i \in 1..Len(s) : s[i] = tok

LowerChar(c) ==
    CASE c = "T" -> "t" [] c = "R" -> "r" [] c = "U" -> "u" [] c = "E" -> "e"
      [] c = "F" -> "f" [] c = "A" -> "a" [] c = "L" -> "l" [] c = "S" -> "s"
      [] OTHER -> c

\* str.lower(), on a sequence of characters
Lower(s) == [i \in 1..Len(s) |-> LowerChar(s[i])]

----------------------------------------------------------------------------
(* Dicts *)

Has(d, k) == \E p \in d : p[1] = k
Get(d, k) == (CHOOSE p \in d : p[1] = k)[2]
Put(d, k, v) == {p \in d : p[1] # k} \cup {<<k, v>>}
Keys(d) == {p[1] : p \in d}

\* the keys on which two dicts differ
Changed(d, e) ==
    {k \in Keys(d) \cup Keys(e) :
        ~(Has(d, k) /\ Has(e, k) /\ Get(d, k) = Get(e, k))}

----------------------------------------------------------------------------
(* Names (action.py 28-44) *)

STATUS_CODE == <<"StatusCode">>
STATUS_REASON == <<"StatusReason">>

LC_TYPE_STATUS == "status"
LC_HOOK_FAILED == "Failed"
LC_HOOK_RUNNING == "Running"
LC_HOOK_COMPLETE == "Complete"

PENDING == Str(<<"pending">>)
RUNNING == Str(<<"running">>)
COMPLETE == Str(<<"complete">>)
FAILED == Str(<<"failed">>)

\* core_framework.status.RELEASE_IN_PROGRESS
RELEASE_IN_PROGRESS == <<"RELEASE_IN_PROGRESS">>

\* the marker of __get_context for "no default given"
NO_DEFAULT == Str(<<"_!NO!DEFAULT!PROVIDED!_">>)

\* the logger's base identity, to which reset_identity() reverts
BaseIdentity == <<"base">>

----------------------------------------------------------------------------
(* The running call: the frame threaded through one operation *)

\* One entry of the record of what an operation did, in order.
\*   "write"          k = Context key, v = value            (__set_context)
\*   "identity"       k = the new log identity               (log.set_identity / reset_identity)
\*   "hook"           n = index of the dispatched hook in LifecycleHooks
\*   "update_status"  k = prn, v = status, w = message, d = details, ok = it returned
\*   "update_item"    k = branch prn, v = released_build_prn, ok = it returned
\*   "call"           k = the concrete method called (_resolve, _execute, _check)
\*   "except"         k = the class of the exception trapped by execute()/check()
\*   "warn"           k = what log.warn reported
Ev(ev, k, v, w, d, ok, n) ==
    [ev |-> ev, k |-> k, v |-> v, w |-> w, d |-> d, ok |-> ok, n |-> n]

\* ctx: the contents of self.context; own: self.context is a dict of this
\* action's own making, no longer the scheduler's; ident: the logger's
\* identity; exc: the exception being propagated; ext: the number of calls
\* made to the external collaborator so far; params: self.params of the
\* instance, which a concrete action's _resolve rewrites; env: what the
\* services a concrete action calls answer during this operation.
NoParams == [x \in {} |-> << >>]
NoEnv == [images |-> ""]

Frame(ctx, own) ==
    [ctx |-> ctx, own |-> own, trace |-> << >>, ident |-> BaseIdentity,
     exc |-> NoExc, ext |-> 0, params |-> NoParams, env |-> NoEnv]

Raised(m) == m.exc # NoExc
Raise(m, e) == [m EXCEPT !.exc = e]
Log(m, e) == [m EXCEPT !.trace = Append(@, e)]

LogSetIdentity(m, identity) ==
    Log([m EXCEPT !.ident = identity],
        Ev("identity", identity, None, None, None, TRUE, 0))

LogResetIdentity(m) == LogSetIdentity(m, BaseIdentity)

LogWarn(m, what) == Log(m, Ev("warn", <<what>>, None, None, None, TRUE, 0))

----------------------------------------------------------------------------
(* BaseAction.__init__ (action.py 89-102) *)

ActionName(self) ==
    LET p == Split1(self.Label, "/") IN p[Len(p)]

OutputNamespace(self) ==
    IF self.SaveOutputs
    THEN Str(Replace(Split1(self.Label, "/")[1], <<":action">>, <<":output">>))
    ELSE None

\* a variant: the scope's namespace, without the action's name
StateNamespaceOfScope(self) ==
    Replace(Split1(self.Label, "/")[1], <<":action">>, <<":var">>)

StateNamespace(self) == Replace(self.Label, <<":action", "/">>, <<":var", "/">>)

----------------------------------------------------------------------------
(* The Context helpers (action.py 277-308) *)

ContextKey(prn, name) == prn \o <<"/">> \o name

\* a variant: an absent key reads as the default, None when none is given
GetContextOrDefault(m, prn, name, default) ==
    LET key == ContextKey(prn, name)
    IN  IF m.ctx # {} /\ Has(m.ctx, key)
        THEN [exc |-> NoExc, val |-> Get(m.ctx, key)]
        ELSE [exc |-> NoExc,
              val |-> IF default = NO_DEFAULT THEN None ELSE default]

\* __get_context: [exc, val]
GetContext(m, prn, name, default) ==
    LET key == ContextKey(prn, name)
    IN  IF m.ctx # {} /\ Has(m.ctx, key)
        THEN [exc |-> NoExc, val |-> Get(m.ctx, key)]
        ELSE IF default = NO_DEFAULT
             THEN [exc |-> Exc("KeyError",
                               <<"Key '">> \o name
                                 \o <<"' is not in the context and no default was provided">>),
                   val |-> None]
             ELSE [exc |-> NoExc, val |-> default]

\* __set_context: an empty self.context is replaced by a new dict
SetContext(m, prn, name, value) ==
    LET key == ContextKey(prn, name)
        e == Ev("write", key, value, None, None, TRUE, 0)
    IN  IF m.ctx = {}
        THEN Log([m EXCEPT !.ctx = {<<key, value>>}, !.own = TRUE], e)
        ELSE Log([m EXCEPT !.ctx = Put(@, key, value)], e)

GetStatusCode(m, self) == GetContext(m, self.Label, STATUS_CODE, PENDING).val
GetStatusReason(m, self) == GetContext(m, self.Label, STATUS_REASON, None).val

is_init(m, self) == GetStatusCode(m, self) = PENDING
is_failed(m, self) == GetStatusCode(m, self) = FAILED
is_running(m, self) == GetStatusCode(m, self) = RUNNING
is_complete(m, self) == GetStatusCode(m, self) = COMPLETE

----------------------------------------------------------------------------
(* Status propagation (action.py 359-402) *)

\* One call of the external tracking collaborator: the calls whose number
\* within the operation is in F raise.
ExtCall(m, F, op, prn, v, message, details) ==
    LET n == m.ext + 1
        ok == n \notin F
        m1 == Log([m EXCEPT !.ext = n], Ev(op, prn, v, message, details, ok, n))
    IN  IF ok THEN m1 ELSE Raise(m1, Exc("ApiError", <<op>>))

UpdateBuild(m, F, prn_sections, status, message, details) ==
    LET build_prn == Join(Slice(prn_sections, 5), ":")
        m1 == ExtCall(m, F, "update_status", build_prn, Str(status), message, details)
    IN  IF Raised(m1) \/ status # RELEASE_IN_PROGRESS THEN m1
        ELSE ExtCall(m1, F, "update_item", Join(Slice(prn_sections, 4), ":"),
                     Str(build_prn), None, None)

UpdateComponent(m, F, prn_sections, status, message, details) ==
    LET component_prn == Join(Slice(prn_sections, 6), ":")
        m1 == ExtCall(m, F, "update_status", component_prn, Str(status), message, details)
    IN  IF Raised(m1) \/ ~Contains(status, "_FAILED") THEN m1
        ELSE ExtCall(m1, F, "update_status", Join(Slice(prn_sections, 5), ":"),
                     Str(status), None, None)

\* a variant: the collaborator's exception is not caught
UpdateItemStatusUncaught(m, F, identity, status, message, details) ==
    LET m0 == LogSetIdentity(m, identity)
        prn_sections == Split(identity, ":")
        m1 == IF Len(prn_sections) = 5
              THEN UpdateBuild(m0, F, prn_sections, status, message, details)
              ELSE m0
        m2 == IF ~Raised(m1) /\ Len(prn_sections) = 6
              THEN UpdateComponent(m1, F, prn_sections, status, message, details)
              ELSE m1
    IN  LogResetIdentity(m2)

\* the steps of __update_item_status, each on the frame the one before
\* ended in: the build's update for an identity of five sections, the
\* component's for one of six, and the except clause
UpdateIfBuild(m, F, prn_sections, status, message, details) ==
    IF Len(prn_sections) = 5
    THEN UpdateBuild(m, F, prn_sections, status, message, details)
    ELSE m

UpdateIfComponent(m, F, prn_sections, status, message, details) ==
    IF ~Raised(m) /\ Len(prn_sections) = 6
    THEN UpdateComponent(m, F, prn_sections, status, message, details)
    ELSE m

WarnIfRaised(m) ==
    IF Raised(m)
    THEN LogWarn([m EXCEPT !.exc = NoExc], "Failed to update status via API")
    ELSE m

\* __update_item_status
UpdateItemStatus(m, F, identity, status, message, details) ==
    LogResetIdentity(
        WarnIfRaised(
            UpdateIfComponent(
                UpdateIfBuild(LogSetIdentity(m, identity), F, Split(identity, ":"),
                              status, message, details),
                F, Split(identity, ":"), status, message, details)))

----------------------------------------------------------------------------
(* The template collaborator *)

\* The index of the first "}}" after position i, or 0
CloseAfter(t, i) ==
    IF \E j \in (i + 1)..Len(t) : t[j] = "}}"
    THEN CHOOSE j \in (i + 1)..Len(t) :
            t[j] = "}}" /\ \A k \in (i + 1)..(j - 1) : t[k] # "}}"
    ELSE 0

RECURSIVE RenderFrom(_, _, _)
RenderFrom(t, i, ctx) ==
    IF i > Len(t) THEN << >>
    ELSE IF t[i] = "{{" /\ CloseAfter(t, i) # 0
         THEN LET j == CloseAfter(t, i)
                  key == SubSeq(t, i + 1, j - 1)
              IN  (IF Has(ctx, key) /\ Get(ctx, key).t = "str"
                   THEN Get(ctx, key).v ELSE << >>)
                  \o RenderFrom(t, j + 1, ctx)
         ELSE <<t[i]>> \o RenderFrom(t, i + 1, ctx)

\* renderer.render_string(template, context): text outside "{{ key }}" is
\* kept, "{{ key }}" becomes the Context's value under key, nothing when
\* the key is absent
Render(t, ctx) == RenderFrom(t, 1, ctx)

----------------------------------------------------------------------------
(* The lifecycle hook dispatcher (action.py 310-357, 404-447) *)

HookParameters(hook, default) ==
    IF "Parameters" \in DOMAIN hook THEN hook.Parameters ELSE default

EmptyParameters == [x \in {} |-> None]

\* __get_status_parameter
GetStatusParameter(event, hook) ==
    LET key == "On" \o event
        parms == HookParameters(hook, EmptyParameters)
    IN  IF key \in DOMAIN parms /\ "Status" \in DOMAIN parms[key]
        THEN Str(parms[key].Status) ELSE None

\* __get_message_parameter
GetMessageParameter(event, hook) ==
    LET key == "On" \o event
        parms == HookParameters(hook, EmptyParameters)
    IN  IF key \in DOMAIN parms /\ "Message" \in DOMAIN parms[key]
        THEN Str(parms[key].Message) ELSE None

\* __get_idenity_parameter
GetIdentityParameter(event, hook) ==
    LET parms == HookParameters(hook, hook)
    IN  IF "Identity" \in DOMAIN parms THEN Str(parms.Identity) ELSE None

\* __get_details_parameter
GetDetailsParameter(event, hook) ==
    LET parms == HookParameters(hook, hook)
    IN  IF "Details" \in DOMAIN parms THEN Str(parms.Details) ELSE None

RenderOptional(x, ctx) == IF Truthy(x) THEN Str(Render(x.v, ctx)) ELSE x

\* a variant: a reason replaces the hook's message
HookMessageReasonOnly(message, reason) ==
    IF Truthy(reason) THEN reason
    ELSE IF Truthy(message) THEN message ELSE Str(<< >>)

\* the message sent: the hook's message and the transition's reason
HookMessage(message, reason) ==
    LET m1 == IF Truthy(reason)
              THEN IF Truthy(message)
                   THEN Str(message.v \o <<" - ">> \o reason.v)
                   ELSE reason
              ELSE message
    IN  IF ~Truthy(m1)
        THEN (IF Truthy(reason) THEN reason ELSE Str(<< >>))
        ELSE m1

\* a variant: a hook without a status or an identity is an error
ExecuteStatusHookStrict(m, F, event, hook, reason) ==
    LET status == RenderOptional(GetStatusParameter(event, hook), m.ctx)
        identity == RenderOptional(GetIdentityParameter(event, hook), m.ctx)
        message == RenderOptional(GetMessageParameter(event, hook), m.ctx)
        details == GetDetailsParameter(event, hook)
    IN  IF ~Truthy(status) \/ ~Truthy(identity)
        THEN Raise(m, Exc("ValueError", <<"status hook without status or identity">>))
        ELSE UpdateItemStatus(m, F, identity.v, status.v,
                              HookMessage(message, reason), details)

\* __execute_status_hook
ExecuteStatusHook(m, F, event, hook, reason) ==
    LET status == RenderOptional(GetStatusParameter(event, hook), m.ctx)
        identity == RenderOptional(GetIdentityParameter(event, hook), m.ctx)
        message == RenderOptional(GetMessageParameter(event, hook), m.ctx)
        details == GetDetailsParameter(event, hook)
    IN  IF ~Truthy(status)
        THEN LogWarn(m, "status hook was executed, but no status was defined for event")
        ELSE IF ~Truthy(identity)
        THEN LogWarn(m, "status hook was executed, but no identity was defined")
        ELSE UpdateItemStatus(m, F, identity.v, status.v,
                              HookMessage(message, reason), details)

\* a variant: a hook of another type is skipped with a warning
ExecuteLifecycleHookLenient(m, F, event, hook_type, hook, reason) ==
    IF hook_type = LC_TYPE_STATUS
    THEN ExecuteStatusHook(m, F, event, hook, reason)
    ELSE LogWarn(m, "Unsupported hook type")

\* __execute_lifecycle_hook
ExecuteLifecycleHook(m, F, event, hook_type, hook, reason) ==
    IF hook_type = LC_TYPE_STATUS
    THEN ExecuteStatusHook(m, F, event, hook, reason)
    ELSE Raise(m, Exc("Exception", <<"Unsupported hook type ", hook_type>>))

\* a variant: a hook with any States listens for every event
ListensAnyState(hook, event) ==
    "States" \in DOMAIN hook /\ hook.States # << >>

\* event in h.get("States", [])
Listens(hook, event) ==
    "States" \in DOMAIN hook /\ Contains(hook.States, event)

\* the indices, in declaration order, of the hooks selected for the event
EventHooks(self, event) ==
    SelectSeq([i \in 1..Len(self.LifecycleHooks) |-> i],
              LAMBDA i : Listens(self.LifecycleHooks[i], event))

RECURSIVE DispatchFrom(_, _, _, _, _, _, _)
DispatchFrom(m, F, self, event, reason, event_hooks, j) ==
    IF Raised(m) \/ j > Len(event_hooks) THEN m
    ELSE LET hook == self.LifecycleHooks[event_hooks[j]]
             m1 == IF "Type" \notin DOMAIN hook
                   THEN Raise(m, Exc("KeyError", <<"Type">>))
                   ELSE ExecuteLifecycleHook(
                            Log(m, Ev("hook", <<event>>, None, None, None, TRUE,
                                      event_hooks[j])),
                            F, event, hook.Type, hook, reason)
         IN  DispatchFrom(m1, F, self, event, reason, event_hooks, j + 1)

\* __execute_lifecycle_hooks
ExecuteLifecycleHooks(m, F, self, event, reason) ==
    DispatchFrom(m, F, self, event, reason, EventHooks(self, event), 1)

----------------------------------------------------------------------------
(* The status setters (action.py 122-177) *)

WriteStatus(m, self, code, reason) ==
    SetContext(SetContext(m, self.Label, STATUS_CODE, code),
               self.Label, STATUS_REASON, reason)

\* the end of a setter, m being the frame the hooks ended in: nothing is
\* written when one of them raised
WriteUnlessRaised(m, self, code, reason) ==
    IF Raised(m) THEN m ELSE WriteStatus(m, self, code, reason)

\* a variant: no duplicate suppression
set_failed_unguarded(m, F, self, reason) ==
    WriteUnlessRaised(ExecuteLifecycleHooks(m, F, self, LC_HOOK_FAILED, reason),
                      self, FAILED, reason)

set_failed(m, F, self, reason) ==
    IF is_failed(m, self) /\ GetStatusReason(m, self) = reason THEN m
    ELSE WriteUnlessRaised(ExecuteLifecycleHooks(m, F, self, LC_HOOK_FAILED, reason),
                           self, FAILED, reason)

\* a variant: duplicate suppression compares the state only
set_running_by_state(m, F, self, reason) ==
    IF is_running(m, self) THEN m
    ELSE WriteUnlessRaised(ExecuteLifecycleHooks(m, F, self, LC_HOOK_RUNNING, reason),
                           self, RUNNING, reason)

set_running(m, F, self, reason) ==
    IF is_running(m, self) /\ GetStatusReason(m, self) = reason THEN m
    ELSE WriteUnlessRaised(ExecuteLifecycleHooks(m, F, self, LC_HOOK_RUNNING, reason),
                           self, RUNNING, reason)

set_complete(m, F, self, reason) ==
    IF is_complete(m, self) /\ GetStatusReason(m, self) = reason THEN m
    ELSE WriteUnlessRaised(ExecuteLifecycleHooks(m, F, self, LC_HOOK_COMPLETE, reason),
                           self, COMPLETE, reason)

set_skipped(m, self, reason) ==
    IF is_complete(m, self) /\ GetStatusReason(m, self) = reason THEN m
    ELSE WriteStatus(m, self, COMPLETE, reason)

----------------------------------------------------------------------------
(* The state and output helpers (action.py 179-199) *)

\* a variant: the state namespace is written only when there is no
\* output namespace
set_output_either(m, self, name, value) ==
    LET ns == OutputNamespace(self)
    IN  IF ns # None THEN SetContext(m, ns.v, name, value)
        ELSE SetContext(m, StateNamespace(self), name, value)

set_output(m, self, name, value) ==
    LET ns == OutputNamespace(self)
        m1 == IF ns # None THEN SetContext(m, ns.v, name, value) ELSE m
    IN  SetContext(m1, StateNamespace(self), name, value)

\* a variant: without an output namespace the state namespace is read
get_output_or_state(m, self, name) ==
    LET ns == OutputNamespace(self)
    IN  IF ns = None THEN GetContext(m, StateNamespace(self), name, NO_DEFAULT)
        ELSE GetContext(m, ns.v, name, NO_DEFAULT)

\* [exc, val]
get_output(m, self, name) ==
    LET ns == OutputNamespace(self)
    IN  IF ns = None THEN [exc |-> NoExc, val |-> None]
        ELSE GetContext(m, ns.v, name, NO_DEFAULT)

set_state(m, self, name, value) ==
    SetContext(m, StateNamespace(self), name, value)

\* [exc, val]
get_state(m, self, name) == GetContext(m, StateNamespace(self), name, NO_DEFAULT)

----------------------------------------------------------------------------
(* SetVariablesAction (set_variables.py 16-36).  self.variables is the   *)
(* object self.params.Variables: a sequence of <<name, template>> pairs in *)
(* the dict's order.                                                       *)

\* _resolve: every variable is replaced by its rendering in self.context
SetVariablesResolve(m, F, self) ==
    LET vs == m.params.Variables
    IN  [m EXCEPT !.params.Variables =
            [i \in DOMAIN vs |-> <<vs[i][1], Render(vs[i][2], m.ctx)>>]]

\* the loop of _execute from the i-th variable on
RECURSIVE SetVariablesFrom(_, _, _)
SetVariablesFrom(m, self, i) ==
    LET vs == m.params.Variables
    IN  IF i > Len(vs) THEN m
        ELSE SetVariablesFrom(
                 set_state(set_output(m, self, vs[i][1], Str(vs[i][2])),
                           self, vs[i][1], Str(vs[i][2])),
                 self, i + 1)

\* _execute: the loop, then set_complete() called without its reason
SetVariablesExecute(m, F, self) ==
    Raise(SetVariablesFrom(m, self, 1),
          Exc("TypeError",
              <<"BaseAction.set_complete() missing 1 required positional argument: 'reason'">>))

\* _check
SetVariablesCheck(m, F, self) ==
    set_failed(m, F, self,
               Str(<<"Internal error - _check() should not have been called">>))

----------------------------------------------------------------------------
(* DuplicateImageToAccountAction (duplicate_image_to_account.py 85-285).   *)
(* m.env.images is what EC2 answers during the operation.  To _execute:    *)
(* "error" describe_images raises, "none" no image has the name,           *)
(* "nosnapshot" the image has no EBS snapshot, "denied" the session on the *)
(* target account is refused, "image" every call succeeds.  To _check:     *)
(* "error" describe_images raises, "none" no image has the id, otherwise   *)
(* the state of the image.                                                 *)

ClientError == Exc("ClientError", <<"An error occurred when calling EC2">>)

\* the id of the image that register_image creates, and the snapshots of
\* that image
RegisteredImageId == <<"ami-2">>
ImageSnapshots == << <<"snap-2">> >>

\* str(xs) of a list of strings
FormatList(xs) ==
    <<"[">> \o Join([i \in DOMAIN xs |-> <<"'", xs[i], "'">>], ", ") \o <<"]">>

\* the name of the state variable that _execute writes
ImageIdWritten(params) == <<"ImageId", params.AccountsToShare[1]>>

\* the name of the state variable that _check reads
ImageIdRead(params) == <<"ImageId">> \o FormatList(params.AccountsToShare)

\* _resolve
DuplicateImageResolve(m, F, self) ==
    [m EXCEPT !.params.Account = Render(@, m.ctx),
              !.params.ImageName = Render(@, m.ctx),
              !.params.Region = Render(@, m.ctx)]

\* set_running with each of the reasons in turn, as far as none raises
RECURSIVE RunningThrough(_, _, _, _)
RunningThrough(m, F, self, reasons) ==
    IF reasons = << >> \/ Raised(m) THEN m
    ELSE RunningThrough(set_running(m, F, self, Str(Head(reasons))),
                        F, self, Tail(reasons))

\* the reasons of the set_running calls that _execute makes: the session
\* on the target account is opened after the first one
ShareReasons(m) ==
    LET target_account == m.params.AccountsToShare[1]
        sharing == <<"Sharing snapshot with the target account ", target_account>>
        copying == <<"Copying snapshot with the target account ", target_account>>
        creating == <<"Creating AMI in the target account ", target_account>>
    IN  IF m.env.images = "denied" THEN <<sharing>>
        ELSE <<sharing, copying, creating>>

\* the end of _execute, m being the frame its set_running calls ended in
DuplicateImageRegister(m, self) ==
    IF Raised(m) THEN m
    ELSE IF m.env.images = "denied" THEN Raise(m, ClientError)
    ELSE set_state(m, self, ImageIdWritten(m.params), Str(RegisteredImageId))

\* _execute
DuplicateImageExecute(m, F, self) ==
    LET none == m.params.AccountsToShare = << >>
    IN  IF ~none /\ m.env.images = "error" THEN Raise(m, ClientError)
        ELSE IF none \/ m.env.images = "none"
        THEN set_complete(m, F, self,
                 IF none
                 THEN Str(<<"No accounts to share image with have been specified">>)
                 ELSE Str(<<"Could not find image with name '">> \o m.params.ImageName
                          \o <<"'. It may have been previously deleted.">>))
        ELSE IF m.env.images = "nosnapshot"
        THEN Raise(m, Exc("IndexError", <<"list index out of range">>))
        ELSE DuplicateImageRegister(RunningThrough(m, F, self, ShareReasons(m)), self)

\* the end of _check for an available image, m being the frame its
\* set_running calls ended in
DuplicateImageAvailable(m, F, self) ==
    IF Raised(m) THEN m
    ELSE set_complete(m, F, self, Str(<<"Image is in state '", m.env.images, "'">>))

\* the reasons of the set_running calls that _check makes
CheckReasons(m, image_id) ==
    IF m.env.images = "available"
    THEN << <<"Tagging image '">> \o image_id \o <<"'">>,
            <<"Tagging image snapshots: ">> \o Join(ImageSnapshots, ", ") >>
    ELSE << <<"Image is in state '", m.env.images, "'">> >>

\* the reason of the set_failed call that _check makes; image is what
\* get_state returned
FailedReason(m, image) ==
    IF image = None THEN Str(<<"No image previously created - cannot continue">>)
    ELSE IF m.env.images = "none"
    THEN Str(<<"No images found with id '">> \o image.v \o <<"'">>)
    ELSE Str(<<"Image is in state '", m.env.images, "'">>)

\* _check
DuplicateImageCheck(m, F, self) ==
    LET r == get_state(m, self, ImageIdRead(m.params))
    IN  IF r.exc # NoExc THEN Raise(m, r.exc)
        ELSE IF r.val # None /\ m.env.images = "error" THEN Raise(m, ClientError)
        ELSE IF r.val # None /\ m.env.images = "available"
        THEN DuplicateImageAvailable(
                 RunningThrough(m, F, self, CheckReasons(m, r.val.v)), F, self)
        ELSE IF r.val # None /\ m.env.images = "pending"
        THEN RunningThrough(m, F, self, CheckReasons(m, r.val.v))
        ELSE set_failed(m, F, self, FailedReason(m, r.val))

----------------------------------------------------------------------------
(* The concrete actions: BaseAction's own methods (action.py 62-69),       *)
(* NoOpAction (no_op.py 11-24) and the actions above                       *)

NotImplemented == Exc("NotImplementedError", <<"Must implement in subclass">>)

Called(m, method) == Log(m, Ev("call", <<method>>, None, None, None, TRUE, 0))

\* self._resolve()
Resolve(m, F, self) ==
    LET m1 == Called(m, "_resolve")
    IN  CASE self.Kind = "NoOp" -> m1
          [] self.Kind = "SetVariables" -> SetVariablesResolve(m1, F, self)
          [] self.Kind = "DuplicateImage" -> DuplicateImageResolve(m1, F, self)
          [] OTHER -> Raise(m1, NotImplemented)

\* self._execute()
ExecuteBody(m, F, self) ==
    LET m1 == Called(m, "_execute")
    IN  CASE self.Kind = "NoOp" ->
                set_complete(m1, F, self, Str(<<"No operation required">>))
          [] self.Kind = "SetVariables" -> SetVariablesExecute(m1, F, self)
          [] self.Kind = "DuplicateImage" -> DuplicateImageExecute(m1, F, self)
          [] OTHER -> Raise(m1, NotImplemented)

\* self._check()
CheckBody(m, F, self) ==
    LET m1 == Called(m, "_check")
    IN  CASE self.Kind = "NoOp" ->
                set_complete(m1, F, self, Str(<<"No operation required">>))
          [] self.Kind = "SetVariables" -> SetVariablesCheck(m1, F, self)
          [] self.Kind = "DuplicateImage" -> DuplicateImageCheck(m1, F, self)
          [] OTHER -> Raise(m1, NotImplemented)

----------------------------------------------------------------------------
(* execute() and check() (action.py 201-275) *)

TrueText == <<"t", "r", "u", "e">>

\* a variant: the reason quotes the lowered string
SkipReasonLowered(condition_result) ==
    Str(<<"Condition evaluated to '">> \o Lower(condition_result) \o <<"'">>)

SkipReason(condition_result) ==
    Str(<<"Condition evaluated to '">> \o condition_result \o <<"'">>)

\* the reason built by the except clause: the exception's class, the file
\* and line of the wrapper's frame, the message and the traceback
InternalError(e, lineno) ==
    Str(<<"Internal error ", e.type, " in ", "action.py", " at ", lineno, " - ">>
        \o e.msg \o <<"\nTraceback:\n", "<traceback>">>)

\* a variant: the identity is reverted only when no exception escapes
TrapNoFinally(t, F, self) ==
    LET m1 == IF Raised(t.m)
              THEN set_failed(
                       Log([t.m EXCEPT !.exc = NoExc],
                           Ev("except", <<t.m.exc.type>>, None, None, None, TRUE, 0)),
                       F, self, InternalError(t.m.exc, t.line))
              ELSE t.m
    IN  IF Raised(m1) THEN m1 ELSE LogResetIdentity(m1)

\* the except and finally clauses shared by execute() and check(): t is
\* the frame the try block ended in and the line it was at
Trap(t, F, self) ==
    LET m1 == IF Raised(t.m)
              THEN set_failed(
                       Log([t.m EXCEPT !.exc = NoExc],
                           Ev("except", <<t.m.exc.type>>, None, None, None, TRUE, 0)),
                       F, self, InternalError(t.m.exc, t.line))
              ELSE t.m
    IN  LogResetIdentity(m1)

\* the try block of execute(); cond is what rendering the condition gave
ExecuteTry(m, F, self, cond) ==
    LET m0 == LogSetIdentity(m, self.Label)
    IN  IF cond.exc # NoExc
        THEN [m |-> Raise(m0, cond.exc), line |-> "207"]
        ELSE IF Lower(cond.val) = TrueText
        THEN LET r == Resolve(m0, F, self)
             IN  IF Raised(r) THEN [m |-> r, line |-> "213"]
                 ELSE [m |-> ExecuteBody(r, F, self), line |-> "214"]
        ELSE [m |-> set_skipped(m0, self, SkipReason(cond.val)), line |-> "217"]

execute(m, F, self, cond) == Trap(ExecuteTry(m, F, self, cond), F, self)

\* the try block of check()
CheckTry(m, F, self) ==
    LET r == Resolve(LogSetIdentity(m, self.Label), F, self)
    IN  IF Raised(r) THEN [m |-> r, line |-> "250"]
        ELSE [m |-> CheckBody(r, F, self), line |-> "251"]

check(m, F, self) == Trap(CheckTry(m, F, self), F, self)

----------------------------------------------------------------------------
(* Action definitions and inputs of the model *)

Label1 == <<"p1", ":action", "/", "a">>
\* a second action of the same scope, and one of another scope
Labels2 == {<<"p1", ":action", "/", "b">>, <<"p2", ":action", "/", "a">>}

ComponentIdentity == <<"a", ":", "b", ":", "c", ":", "d", ":", "e", ":", "f">>
BuildIdentity == <<"a", ":", "b", ":", "c", ":", "d", ":", "e">>

\* a status hook addressing a component
HookComponent ==
    [Type |-> "status", States |-> <<"Failed", "Running">>,
     Parameters |->
        [OnFailed |-> [Status |-> <<"COMPONENT", "_FAILED">>,
                       Message |-> <<"component failed">>],
         OnRunning |-> [Status |-> <<"COMPONENT", "_RUNNING">>],
         Identity |-> ComponentIdentity]]

\* a status hook addressing a build
HookBuild ==
    [Type |-> "status", States |-> <<"Running", "Complete">>,
     Parameters |->
        [OnRunning |-> [Status |-> RELEASE_IN_PROGRESS],
         OnComplete |-> [Status |-> <<"RELEASE", "_COMPLETE">>,
                         Message |-> <<"released">>],
         Identity |-> BuildIdentity]]

\* a hook of a type the dispatcher does not know
HookUnsupported == [Type |-> "email", States |-> <<"Failed", "Complete">>]

HookLists ==
    {<< >>, <<HookComponent>>, <<HookBuild>>, <<HookComponent, HookBuild>>,
     <<HookComponent, HookUnsupported>>, <<HookBuild, HookUnsupported>>}

Kinds == {"Base", "NoOp"}

Definitions(labels, saves, hooks, kinds) ==
    {[Label |-> l, SaveOutputs |-> s, LifecycleHooks |-> h, Kind |-> k] :
        l \in labels, s \in saves, h \in hooks, k \in kinds}

\* what the scheduler's dict holds before any action runs
SeedKey == <<"p0", ":output", "/", "seed">>
InitialContexts == {{}, {<<SeedKey, Str(<<"seed">>)>>}}

\* the reasons given to a setter called directly
Reasons == {Str(<< >>), Str(<<"r1">>), Str(<<"r2">>)}

\* what rendering the condition gives: a string, or an exception
CondResults ==
    {<<"T", "r", "u", "e">>, <<"t", "r", "u", "e">>,
     <<"F", "a", "l", "s", "e">>, <<"f", "a", "l", "s", "e">>}
CondOutcomes ==
    {[exc |-> NoExc, val |-> t] : t \in CondResults}
    \cup {[exc |-> Exc("TemplateError", <<"cannot render">>), val |-> << >>]}

\* which of the external collaborator's calls raise
Failures == SUBSET (1..MaxExtCalls)

Names == {<<"x">>}
Values == {Str(<<ToString(i)>>) : i \in 1..MaxValue}

----------------------------------------------------------------------------
(* State *)

VARIABLES
    defs,         \* the ActionDefinition of each action of the run
    context,      \* the dict the scheduler made and gave to every action
    own,          \* per action: whether self.context is a dict of its own, and that dict
    trace,        \* what the last operation did, in order
    last,         \* the last operation: its name, action, arguments, result, exception
    written,      \* per action: the Context keys it has written so far
    logIdentity   \* the logger's identity

vars == <<defs, context, own, trace, last, written, logIdentity>>

\* the actions of a run of the lifecycle specification, and of the
\* specification of two actions sharing a Context
RunActions == {1}
SharingActions == {1, 2}

\* self.context of action a
View(a) == IF own[a].det THEN own[a].ctx ELSE context

Start(a) == Frame(View(a), own[a].det)

\* again: whether the operation repeats the call made just before it (the
\* same operation of the same action with the same arguments), and how
\* that call went: "raised", "fired" (it returned, having done something),
\* "quiet" (it returned, having done nothing); "no" when it does not
Operation(op, a, name, arg, ret, exc, again) ==
    [op |-> op, a |-> a, name |-> name, arg |-> arg, ret |-> ret, exc |-> exc,
     again |-> again]

Again(op, a, name, arg) ==
    IF op = last.op /\ a = last.a /\ name = last.name /\ arg = last.arg
    THEN IF last.exc # NoExc THEN "raised"
         ELSE IF trace # << >> THEN "fired" ELSE "quiet"
    ELSE "no"

WrittenKeys(t) == {t[i].k : i \in {j \in 1..Len(t) : t[j].ev = "write"}}

InitWith(ds) ==
    /\ defs \in ds
    /\ context \in InitialContexts
    /\ own = [a \in DOMAIN defs |-> [det |-> FALSE, ctx |-> {}]]
    /\ trace = << >>
    /\ last = Operation("", 0, << >>, None, None, NoExc, "no")
    /\ written = [a \in DOMAIN defs |-> {}]
    /\ logIdentity = BaseIdentity

\* one action, with any hooks and any concrete kind; no operation of its
\* lifecycle reads SaveOutputs
Init ==
    InitWith([RunActions -> Definitions({Label1}, {FALSE}, HookLists, Kinds)])

\* two actions with different labels and no hooks
InitContext ==
    InitWith({d \in [SharingActions -> Definitions({Label1} \cup Labels2, BOOLEAN, {<< >>}, {"NoOp"})] :
                d[1].Label = Label1 /\ d[2].Label \in Labels2})

\* the end of an operation of action a that ran in frame m: what it
\* leaves in the Context, the log and the record of the run
Finish(a, m, op, name, arg, ret) ==
    /\ IF m.own
       THEN own' = [own EXCEPT ![a] = [det |-> TRUE, ctx |-> m.ctx]]
            /\ context' = context
       ELSE context' = m.ctx /\ own' = own
    /\ trace' = m.trace
    /\ logIdentity' = m.ident
    /\ last' = Operation(op, a, name, arg, ret, m.exc, Again(op, a, name, arg))
    /\ written' = [written EXCEPT ![a] = @ \cup WrittenKeys(m.trace)]

\* the end of an operation of an action whose instance keeps no params
Commit(a, m, op, name, arg, ret) ==
    Finish(a, m, op, name, arg, ret) /\ UNCHANGED defs

----------------------------------------------------------------------------
(* Operations *)

SetFailed(a) ==
    \E reason \in Reasons, F \in Failures :
        Commit(a, set_failed(Start(a), F, defs[a], reason),
               "set_failed", << >>, reason, None)

SetRunning(a) ==
    \E reason \in Reasons, F \in Failures :
        Commit(a, set_running(Start(a), F, defs[a], reason),
               "set_running", << >>, reason, None)

SetComplete(a) ==
    \E reason \in Reasons, F \in Failures :
        Commit(a, set_complete(Start(a), F, defs[a], reason),
               "set_complete", << >>, reason, None)

Execute(a) ==
    \E cond \in CondOutcomes, F \in Failures :
        Commit(a, execute(Start(a), F, defs[a], cond),
               "execute", << >>,
               IF cond.exc = NoExc THEN Str(cond.val) ELSE None, None)

Check(a) ==
    \E F \in Failures :
        Commit(a, check(Start(a), F, defs[a]), "check", << >>, None, None)

SetOutput(a) ==
    \E name \in Names, value \in Values :
        Commit(a, set_output(Start(a), defs[a], name, value),
               "set_output", name, value, None)

SetState(a) ==
    \E name \in Names, value \in Values :
        Commit(a, set_state(Start(a), defs[a], name, value),
               "set_state", name, value, None)

GetOutput(a) ==
    \E name \in Names :
        LET r == get_output(Start(a), defs[a], name)
        IN  Commit(a, Raise(Start(a), r.exc), "get_output", name, None, r.val)

GetState(a) ==
    \E name \in Names :
        LET r == get_state(Start(a), defs[a], name)
        IN  Commit(a, Raise(Start(a), r.exc), "get_state", name, None, r.val)

\* set_failed called by an action without hooks: no call is made to the
\* external collaborator
MarkFailed(a) ==
    \E reason \in {Str(<<"r1">>)} :
        Commit(a, set_failed(Start(a), {}, defs[a], reason),
               "set_failed", << >>, reason, None)

\* the lifecycle of one action
Next ==
    \E a \in RunActions :
        \/ SetFailed(a)
        \/ SetRunning(a)
        \/ SetComplete(a)
        \/ Execute(a)
        \/ Check(a)

Spec == Init /\ [][Next]_vars

\* the Context helpers and status writes of two actions of one run
NextContext ==
    \E a \in SharingActions :
        \/ SetOutput(a)
        \/ SetState(a)
        \/ GetOutput(a)
        \/ GetState(a)
        \/ MarkFailed(a)

SpecContext == InitContext /\ [][NextContext]_vars

----------------------------------------------------------------------------
(* The hook dispatcher on hooks of every shape *)

\* the Context key of the state variable x of the action labelled Label1
TemplateKey == ContextKey(StateNamespace([Label |-> Label1]), <<"x">>)

\* the template "{{ key }}"
Placeholder(key) == <<"{{">> \o key \o <<"}}">>

\* a status hook with no Status for any event
HookNoStatus ==
    [Type |-> "status", States |-> <<"Failed", "Running", "Complete">>,
     Parameters |->
        [OnFailed |-> [Message |-> <<"no status">>],
         Identity |-> ComponentIdentity]]

\* a status hook with no Identity
HookNoIdentity ==
    [Type |-> "status", States |-> <<"Failed", "Running">>,
     Parameters |->
        [OnFailed |-> [Status |-> <<"X", "_FAILED">>],
         OnRunning |-> [Status |-> <<"X", "_RUNNING">>]]]

\* a status hook without Parameters: Identity and Details at its root
HookNoParameters ==
    [Type |-> "status", States |-> <<"Failed", "Complete">>,
     Identity |-> BuildIdentity, Details |-> <<"details">>]

\* a status hook whose Status and Message are templates of a state
\* variable; the Message for Complete renders to nothing without it
HookTemplated ==
    [Type |-> "status", States |-> <<"Running", "Complete">>,
     Parameters |->
        [OnRunning |-> [Status |-> Placeholder(TemplateKey),
                        Message |-> <<"at ">> \o Placeholder(TemplateKey)],
         OnComplete |-> [Status |-> <<"DONE", "_">> \o Placeholder(TemplateKey),
                         Message |-> Placeholder(TemplateKey)],
         Identity |-> BuildIdentity]]

\* a status hook whose Identity is a template of a state variable
HookTemplatedIdentity ==
    [Type |-> "status", States |-> <<"Failed", "Running">>,
     Parameters |->
        [OnFailed |-> [Status |-> <<"Y", "_FAILED">>],
         OnRunning |-> [Status |-> <<"Y", "_RUNNING">>],
         Identity |-> Placeholder(TemplateKey)]]

\* a status hook with Identity and Details inside the On<Event> bundle
HookNested ==
    [Type |-> "status", States |-> <<"Failed">>,
     Parameters |->
        [OnFailed |-> [Status |-> <<"NESTED", "_FAILED">>,
                       Identity |-> ComponentIdentity,
                       Details |-> <<"details">>]]]

\* a status hook with Status in the On<Event> bundle and Identity and
\* Details at the hook's root
HookRoot ==
    [Type |-> "status", States |-> <<"Failed">>,
     Identity |-> BuildIdentity, Details |-> <<"details">>,
     Parameters |-> [OnFailed |-> [Status |-> <<"ROOT", "_FAILED">>]]]

HookCases ==
    {<<HookNoStatus, HookComponent>>, <<HookNoIdentity, HookBuild>>,
     <<HookNoParameters, HookBuild>>, <<HookTemplated, HookBuild>>,
     <<HookTemplatedIdentity, HookComponent>>, <<HookNested, HookComponent>>,
     <<HookRoot>>, <<HookUnsupported, HookComponent>>,
     <<HookComponent, HookUnsupported, HookNoStatus>>}

\* one NoOp action with hooks of every shape
InitHooks ==
    InitWith([RunActions -> Definitions({Label1}, {FALSE}, HookCases, {"NoOp"})])

\* the setters, with a collaborator that answers every call
FireFailed(a) ==
    \E reason \in Reasons :
        Commit(a, set_failed(Start(a), {}, defs[a], reason),
               "set_failed", << >>, reason, None)

FireRunning(a) ==
    \E reason \in Reasons :
        Commit(a, set_running(Start(a), {}, defs[a], reason),
               "set_running", << >>, reason, None)

FireComplete(a) ==
    \E reason \in Reasons :
        Commit(a, set_complete(Start(a), {}, defs[a], reason),
               "set_complete", << >>, reason, None)

\* set_state of a value other than the one the variable holds
SetStateAnew(a) ==
    \E name \in Names, value \in Values :
        /\ LET r == get_state(Start(a), defs[a], name)
           IN  r.exc # NoExc \/ r.val # value
        /\ Commit(a, set_state(Start(a), defs[a], name, value),
                  "set_state", name, value, None)

\* the setters of one action and the state variable its hooks read
NextHooks ==
    \E a \in RunActions :
        \/ FireFailed(a)
        \/ FireRunning(a)
        \/ FireComplete(a)
        \/ SetStateAnew(a)

SpecHooks == InitHooks /\ [][NextHooks]_vars

----------------------------------------------------------------------------
(* What the properties read off the state *)

\* the status an action reads in its Context
StatusCodeOf(a) == GetStatusCode(Start(a), defs[a])
StatusReasonOf(a) == GetStatusReason(Start(a), defs[a])

Setters == {"set_failed", "set_running", "set_complete"}

EventOf(op) ==
    CASE op = "set_failed" -> "Failed"
      [] op = "set_running" -> "Running"
      [] op = "set_complete" -> "Complete"

Events(t, kinds) == SelectSeq(t, LAMBDA e : e.ev \in kinds)

\* the hooks of a definition that list the event, by index
Listening(d, event) ==
    {i \in 1..Len(d.LifecycleHooks) :
        /\ "States" \in DOMAIN d.LifecycleHooks[i]
        /\ \E j \in 1..Len(d.LifecycleHooks[i].States) :
              d.LifecycleHooks[i].States[j] = event}

\* the hooks dispatched are exactly those of S, each once, in order
DispatchedOnce(t, S) ==
    LET h == Events(t, {"hook"})
    IN  /\ {h[i].n : i \in 1..Len(h)} = S
        /\ \A i, j \in 1..Len(h) : i < j => h[i].n < h[j].n

\* the status pair is written, once, and nothing else
WroteStatusOnce(t, label) ==
    LET w == Events(t, {"write"})
    IN  /\ Len(w) = 2
        /\ w[1].k = label \o <<"/", "StatusCode">>
        /\ w[2].k = label \o <<"/", "StatusReason">>

----------------------------------------------------------------------------
(* C1 *)

\* C1 as stated: a setter called twice in a row with the same reason
\* fires its hooks once and writes the status once in total, the second
\* call firing no hook and writing nothing, whatever the first call did.
C1_TwiceAsStated ==
    (last.op \in Setters /\ last.again # "no") => trace = << >>

\* C1, amended: when a setter call with reason r returns (no selected hook
\* raised), an immediately following call of the same setter with the same
\* reason fires no hook, writes nothing and returns; and a call that is
\* not suppressed and returns has dispatched every hook listening for its
\* event exactly once, in order, and written StatusCode and StatusReason
\* exactly once.
C1_Idempotent ==
    /\ (last.op \in Setters /\ last.again \in {"fired", "quiet"})
          => (trace = << >> /\ last.exc = NoExc)
    /\ (last.op \in Setters /\ last.exc = NoExc /\ trace # << >>)
          => /\ DispatchedOnce(trace, Listening(defs[last.a], EventOf(last.op)))
             /\ WroteStatusOnce(trace, defs[last.a].Label)
             /\ StatusReasonOf(last.a) = last.arg

\* a second call in a row, suppressed, of a setter whose first call fired
\* a status hook
C1_Witness ==
    /\ last.op = "set_failed" /\ last.again = "fired"
    /\ Listening(defs[last.a], "Failed") # {}
    /\ trace = << >>

----------------------------------------------------------------------------
(* C2 *)

Trapped(t) == Events(t, {"except"})

\* C2: when an exception is raised while rendering the condition or in
\* _resolve, _execute or _check, execute()/check() return normally with
\* StatusCode failed and a non-empty StatusReason naming the exception's
\* class; no exception escapes.
C2_NeverEscapes ==
    (last.op \in {"execute", "check"} /\ Trapped(trace) # << >>)
        => /\ last.exc = NoExc
           /\ StatusCodeOf(last.a) = FAILED
           /\ Truthy(StatusReasonOf(last.a))
           /\ Contains(StatusReasonOf(last.a).v, Trapped(trace)[1].k[1])

----------------------------------------------------------------------------
(* C3 *)

\* "true", in any case
IsTrueAnyCase(c) ==
    /\ Len(c) = 4
    /\ c[1] \in {"t", "T"} /\ c[2] \in {"r", "R"}
    /\ c[3] \in {"u", "U"} /\ c[4] \in {"e", "E"}

Skipping == last.op = "execute" /\ last.arg # None /\ ~IsTrueAnyCase(last.arg.v)

\* C3: when the condition renders to a string that is not "true" in any
\* case, execute() calls neither _resolve nor _execute and leaves
\* StatusCode complete with the reason "Condition evaluated to '<rendered>'";
\* it writes no status running or failed, and returns.
C3_SkipIsComplete ==
    Skipping
        => /\ Events(trace, {"call", "hook", "except"}) = << >>
           /\ StatusCodeOf(last.a) = COMPLETE
           /\ StatusReasonOf(last.a)
                 = Str(<<"Condition evaluated to '">> \o last.arg.v \o <<"'">>)
           /\ \A i \in 1..Len(trace) :
                 trace[i].ev = "write" => trace[i].v \notin {RUNNING, FAILED}
           /\ last.exc = NoExc

\* a skip, of a condition rendered "False", that wrote the status
C3_Witness ==
    /\ Skipping
    /\ \E i \in 1..Len(trace) : trace[i].ev = "write" /\ trace[i].v = COMPLETE
    /\ last.arg.v = <<"F", "a", "l", "s", "e">>

----------------------------------------------------------------------------
(* C7 *)

Terminal == {COMPLETE, FAILED}

\* C7: once the StatusCode of an action is complete or failed, no
\* execute() or check() call on it changes the StatusCode.
C7_TerminalStays ==
    [][\A a \in RunActions :
          (StatusCodeOf(a) \in Terminal /\ last'.op \in {"execute", "check"})
              => StatusCodeOf(a)' = StatusCodeOf(a)]_vars

----------------------------------------------------------------------------
(* C9, C10 *)

\* the number of segments of a colon-delimited identity
Segments(prn) == Cardinality({i \in 1..Len(prn) : prn[i] = ":"}) + 1

\* the identity's first n segments
Prefix(prn, n) == SubSeq(prn, 1, 2 * n - 1)

\* C9: every update_status issued to a 6-segment identity with a status
\* containing "_FAILED" is followed, in the same operation, by an
\* update_status with a failed status to its 5-segment prefix, whether
\* or not the collaborator's calls succeed.
C9_FailureBubblesUp ==
    \A i \in 1..Len(trace) :
        (/\ trace[i].ev = "update_status"
         /\ Segments(trace[i].k) = 6
         /\ Contains(trace[i].v.v, "_FAILED"))
            => \E j \in (i + 1)..Len(trace) :
                  /\ trace[j].ev = "update_status"
                  /\ trace[j].k = Prefix(trace[i].k, 5)
                  /\ Contains(trace[j].v.v, "_FAILED")

\* C10: every update_status issued to a 5-segment identity with the
\* release-in-progress status is followed by an update_item on the
\* 4-segment prefix pointing to that build, whether or not the
\* collaborator's calls succeed; update_item is called in no other case.
C10_ReleaseMovesPointer ==
    /\ \A i \in 1..Len(trace) :
          (/\ trace[i].ev = "update_status"
           /\ Segments(trace[i].k) = 5
           /\ trace[i].v = Str(<<"RELEASE_IN_PROGRESS">>))
              => \E j \in (i + 1)..Len(trace) :
                    /\ trace[j].ev = "update_item"
                    /\ trace[j].k = Prefix(trace[i].k, 4)
                    /\ trace[j].v = Str(trace[i].k)
    /\ \A j \in 1..Len(trace) :
          trace[j].ev = "update_item"
              => /\ j > 1
                 /\ trace[j - 1].ev = "update_status"
                 /\ Segments(trace[j - 1].k) = 5
                 /\ trace[j - 1].v = Str(<<"RELEASE_IN_PROGRESS">>)
                 /\ trace[j].v = Str(trace[j - 1].k)

----------------------------------------------------------------------------
(* C4 *)

\* the keys of a variable of an action with label <scope>:action/<name>
StateKeyOf(d, n) == <<d.Label[1], ":var", "/", d.Label[4], "/">> \o n
OutputKeyOf(d, n) == <<d.Label[1], ":output", "/">> \o n

OutputKeysOf(d, n) ==
    {StateKeyOf(d, n)} \cup (IF d.SaveOutputs THEN {OutputKeyOf(d, n)} ELSE {})

\* C4: set_output(name, value) writes, in the action's Context, the key
\* under its state namespace and, only with output visibility enabled,
\* the key under the output namespace: one key or two, each set to value;
\* every other key is unchanged.
C4_SetOutputFrame ==
    [][\A a \in SharingActions :
        (last'.op = "set_output" /\ last'.a = a) =>
          LET keys == OutputKeysOf(defs[a], last'.name)
          IN  /\ Cardinality(keys) = IF defs[a].SaveOutputs THEN 2 ELSE 1
              /\ Len(Events(trace', {"write"})) = Cardinality(keys)
              /\ WrittenKeys(trace') = keys
              /\ Changed(View(a), View(a)') \subseteq keys
              /\ \A k \in keys :
                    Has(View(a)', k) /\ Get(View(a)', k) = last'.arg]_vars

\* set_output by an action with output visibility enabled, in a Context
\* that holds other keys
C4_Witness ==
    /\ last.op = "set_output" /\ defs[last.a].SaveOutputs
    /\ Keys(View(last.a)) \ OutputKeysOf(defs[last.a], last.name) # {}
    /\ \A k \in OutputKeysOf(defs[last.a], last.name) :
          Has(View(last.a), k) /\ Get(View(last.a), k) = last.arg

----------------------------------------------------------------------------
(* C5 *)

\* C5: what an action writes to the Context is what every other action
\* of the run reads under the same key, whatever the Context held at the
\* start, an empty Context included.
C5_OneSharedStore ==
    \A b \in SharingActions :
        \A i \in 1..Len(trace) :
            (trace[i].ev = "write" /\ b # last.a)
                => /\ Has(View(b), trace[i].k)
                   /\ Get(View(b), trace[i].k) = trace[i].v

----------------------------------------------------------------------------
(* C6 *)

\* C6 as stated: two actions with different labels never write the same
\* Context key.
C6_DisjointKeys ==
    \A a, b \in SharingActions : a # b => written[a] \cap written[b] = {}

\* C6, amended: a key written by two actions with different labels is a
\* key <scope>:output/<name> of the output namespace of a scope both
\* actions belong to, both with output visibility enabled; their status
\* keys and state-namespace keys are disjoint, and so are all the keys of
\* actions of different scopes.
C6_OnlyOutputsShared ==
    \A a, b \in SharingActions :
        a # b =>
            \A k \in written[a] \cap written[b] :
                /\ defs[a].SaveOutputs /\ defs[b].SaveOutputs
                /\ defs[a].Label[1] = defs[b].Label[1]
                /\ \E n \in Names : k = OutputKeyOf(defs[a], n)

\* two actions that have each written their status, a state variable and
\* an output, the output under the same key
C6_Witness ==
    /\ written[1] \cap written[2] # {}
    /\ \A a \in SharingActions :
          /\ defs[a].Label \o <<"/", "StatusCode">> \in written[a]
          /\ \E n \in Names :
                {StateKeyOf(defs[a], n), OutputKeyOf(defs[a], n)} \subseteq written[a]

----------------------------------------------------------------------------
(* C8 *)

\* C8: get_state of a name absent from the action's state namespace
\* raises KeyError, returns nothing and writes nothing (get_output with
\* output visibility enabled likewise); a present name is returned; only
\* the status reads default: an absent StatusCode reads as pending, an
\* absent StatusReason as None.
C8_AbsentKeyRaises ==
    /\ last.op = "get_state" =>
          LET k == StateKeyOf(defs[last.a], last.name)
          IN  /\ trace = << >>
              /\ IF Has(View(last.a), k)
                 THEN last.exc = NoExc /\ last.ret = Get(View(last.a), k)
                 ELSE last.exc.type = "KeyError" /\ last.ret = None
    /\ (/\ last.op = "get_output" /\ defs[last.a].SaveOutputs
        /\ ~Has(View(last.a), OutputKeyOf(defs[last.a], last.name)))
          => last.exc.type = "KeyError"
    /\ \A a \in SharingActions :
          /\ ~Has(View(a), defs[a].Label \o <<"/", "StatusCode">>)
                => StatusCodeOf(a) = Str(<<"pending">>)
          /\ ~Has(View(a), defs[a].Label \o <<"/", "StatusReason">>)
                => StatusReasonOf(a) = None

\* get_state of a name never written, in a Context that is not empty
C8_Witness ==
    /\ last.op = "get_state" /\ last.exc.type = "KeyError"
    /\ View(last.a) # {}
    /\ StateKeyOf(defs[last.a], last.name) \notin written[last.a]

----------------------------------------------------------------------------
(* C11 *)

\* the calls made to the external collaborator
ExtOps == {"update_status", "update_item"}

\* what an operation did, the calls to the collaborator and the log left out
Effects(t) == Events(t, {"write", "hook", "call", "except"})

\* the outcome of rendering the condition, from the argument recorded
CondOf(arg) ==
    CHOOSE c \in CondOutcomes :
        IF arg = None THEN c.exc # NoExc ELSE c.exc = NoExc /\ c.val = arg.v

\* the operation, run from the current state with a collaborator none of
\* whose calls raise
Undisturbed(a, op, arg) ==
    CASE op = "set_failed" -> set_failed(Start(a), {}, defs[a], arg)
      [] op = "set_running" -> set_running(Start(a), {}, defs[a], arg)
      [] op = "set_complete" -> set_complete(Start(a), {}, defs[a], arg)
      [] op = "execute" -> execute(Start(a), {}, defs[a], CondOf(arg))
      [] op = "check" -> check(Start(a), {}, defs[a])

\* C11: a failure of the external collaborator never changes an action's
\* outcome.  When update_status or update_item raises during a setter,
\* execute() or check(), the operation ends as it does when none raises: the same hooks are dispatched, the same status and reason are
\* written, the Context is the same, the same exception (if any) leaves
\* the operation; and no exception of the collaborator is ever trapped
\* by execute()/check() as an internal error.
C11_NoInterference ==
    [][\A a \in RunActions :
          (/\ last'.a = a /\ last'.op \in Setters \cup {"execute", "check"}
           /\ \E i \in 1..Len(trace') : trace'[i].ev \in ExtOps /\ ~trace'[i].ok) =>
              LET m == Undisturbed(a, last'.op, last'.arg)
              IN  /\ View(a)' = m.ctx
                  /\ last'.exc = m.exc
                  /\ Effects(trace') = Effects(m.trace)
                  /\ \A i \in 1..Len(trace') :
                        trace'[i].ev = "except" => trace'[i].k # <<"ApiError">>]_vars

\* a setter one of whose hooks met a failing update_status, which went on
\* to dispatch the next hook and wrote the status it was asked to write
C11_Witness ==
    /\ last.op = "set_running" /\ last.exc = NoExc
    /\ \E i, j \in 1..Len(trace) :
          /\ i < j
          /\ trace[i].ev \in ExtOps /\ ~trace[i].ok
          /\ trace[j].ev = "hook"
    /\ StatusCodeOf(last.a) = RUNNING
    /\ StatusReasonOf(last.a) = last.arg

----------------------------------------------------------------------------
(* C12 *)

\* a setter, by name, of an action of definition d
Setter(op, m, F, d, reason) ==
    CASE op = "set_failed" -> set_failed(m, F, d, reason)
      [] op = "set_running" -> set_running(m, F, d, reason)
      [] op = "set_complete" -> set_complete(m, F, d, reason)

TargetOf(op) ==
    CASE op = "set_failed" -> FAILED
      [] op = "set_running" -> RUNNING
      [] op = "set_complete" -> COMPLETE

\* a status hook for which the dispatcher finds no status or no identity,
\* or an empty one once rendered in Context ctx
Unresolved(hook, event, ctx) ==
    /\ "Type" \in DOMAIN hook /\ hook.Type = "status"
    /\ \/ ~Truthy(RenderOptional(GetStatusParameter(event, hook), ctx))
       \/ ~Truthy(RenderOptional(GetIdentityParameter(event, hook), ctx))

\* the definition d without the hooks whose index is in S
WithoutHooks(d, S) ==
    LET idx == SelectSeq([i \in 1..Len(d.LifecycleHooks) |-> i],
                         LAMBDA i : i \notin S)
    IN  [d EXCEPT !.LifecycleHooks = [j \in 1..Len(idx) |-> d.LifecycleHooks[idx[j]]]]

\* what reaches the collaborator and the Context
Sent(t) == Events(t, ExtOps \cup {"write"})

\* C12: a status hook whose Status or Identity is missing, or empty after
\* templating, is skipped with a warning.  In every setter call that is
\* not suppressed: such a hook, once dispatched, makes no call to the
\* collaborator and only logs a warning; the call ends (Context, calls to
\* the collaborator, status writes, exception) as the same call on the
\* definition without those hooks; and when it returns, every hook
\* listening for the event was dispatched and the status and reason
\* stored are the ones asked for.
C12_SkippedNotFailed ==
    [][\A a \in RunActions :
          (last'.a = a /\ last'.op \in Setters /\ trace' # << >>) =>
              LET event == EventOf(last'.op)
                  skipped == {i \in Listening(defs[a], event) :
                                 Unresolved(defs[a].LifecycleHooks[i], event, View(a))}
                  m == Setter(last'.op, Start(a), {}, WithoutHooks(defs[a], skipped),
                              last'.arg)
              IN  /\ \A i \in 1..Len(trace') :
                        (trace'[i].ev = "hook" /\ trace'[i].n \in skipped)
                            => /\ i < Len(trace')
                               /\ trace'[i + 1].ev = "warn"
                               /\ i + 1 < Len(trace')
                                     => trace'[i + 2].ev \in {"hook", "write"}
                  /\ View(a)' = m.ctx
                  /\ last'.exc = m.exc
                  /\ Sent(trace') = Sent(m.trace)
                  /\ last'.exc = NoExc
                        => /\ DispatchedOnce(trace', Listening(defs[a], event))
                           /\ StatusCodeOf(a)' = TargetOf(last'.op)
                           /\ StatusReasonOf(a)' = last'.arg]_vars

\* set_running by an action whose first hook's Status is a template that
\* renders to nothing: the hook is skipped with a warning, the next hook
\* reaches the collaborator and the status running is stored
C12_Witness ==
    /\ last.op = "set_running" /\ last.exc = NoExc
    /\ defs[last.a].LifecycleHooks[1] = HookTemplated
    /\ \E i, j \in 1..Len(trace) :
          /\ i + 1 < j
          /\ trace[i].ev = "hook" /\ trace[i].n = 1
          /\ trace[i + 1].ev = "warn"
          /\ trace[j].ev = "update_status" /\ trace[j].ok
    /\ StatusCodeOf(last.a) = RUNNING

----------------------------------------------------------------------------
(* C13, C14 *)

Wrappers == {"execute", "check"}

\* the logger's identity when the i-th entry of the record was made, in an
\* operation that began with the base identity
IdentityAt(t, i) ==
    LET S == {j \in 1..(i - 1) : t[j].ev = "identity"}
    IN  IF S = {} THEN BaseIdentity
        ELSE t[CHOOSE j \in S : \A k \in S : k <= j].k

\* C13: execute() and check() set the log identity to the action's label
\* before anything else (the outcome of rendering the condition, _resolve
\* and the body come after it), and on every exit path, an exception that
\* escapes while the failure is recorded included, the identity is the
\* base value when the call ends, reverted by the call's last step.
C13_IdentityScoped ==
    last.op \in Wrappers
        => /\ trace # << >>
           /\ trace[1].ev = "identity" /\ trace[1].k = defs[last.a].Label
           /\ \A i \in 1..Len(trace) :
                 trace[i].ev \in {"call", "except", "write", "hook"} => i > 1
           /\ trace[Len(trace)].ev = "identity"
           /\ trace[Len(trace)].k = BaseIdentity
           /\ logIdentity = BaseIdentity

\* an execute() out of which an exception escaped while the failure was
\* being recorded, that set the identity and reverted it
C13_Witness ==
    /\ last.op = "execute" /\ last.exc # NoExc
    /\ Trapped(trace) # << >>
    /\ trace[1].k = defs[last.a].Label
    /\ logIdentity = BaseIdentity

\* C14: during execute() and check() the log identity is the action's
\* label at every call of the concrete action's methods and at every
\* status write, those that follow the firing of a status hook included.
C14_IdentityIsLabel ==
    last.op \in Wrappers
        => \A i \in 1..Len(trace) :
              trace[i].ev \in {"call", "write"}
                  => IdentityAt(trace, i) = defs[last.a].Label

----------------------------------------------------------------------------
(* C15 *)

\* the status codes written by an operation, in order
StatusWrites(t, label) ==
    SelectSeq(t, LAMBDA e : e.ev = "write" /\ e.k = label \o <<"/", "StatusCode">>)

\* C15: execute() of a pending action without hooks, whose condition
\* renders to "true", ends complete or failed; when it ends complete the
\* status running was written earlier in the call.
C15_ThroughRunning ==
    [][\A a \in RunActions :
          (/\ StatusCodeOf(a) = PENDING
           /\ defs[a].LifecycleHooks = << >>
           /\ last'.a = a /\ last'.op = "execute"
           /\ last'.arg # None /\ IsTrueAnyCase(last'.arg.v))
              => /\ StatusCodeOf(a)' \in {COMPLETE, FAILED}
                 /\ StatusCodeOf(a)' = COMPLETE
                       => LET w == StatusWrites(trace', defs[a].Label)
                          IN  \E i, j \in 1..Len(w) :
                                 i < j /\ w[i].v = RUNNING /\ w[j].v = COMPLETE]_vars

----------------------------------------------------------------------------
(* C16 *)

Calls(t) == Events(t, {"call"})

\* C16: check() calls _resolve and then _check whatever the condition and
\* the status are; in execute() (true condition) and check() _resolve is
\* called before the body; when _resolve raises, the body is not called
\* and the status becomes failed.
C16_ResolveThenBody ==
    /\ last.op = "check"
          => Calls(trace) # << >> /\ Calls(trace)[1].k = <<"_resolve">>
    /\ last.op \in Wrappers
          => \A i \in 1..Len(Calls(trace)) :
                Calls(trace)[i].k # <<"_resolve">>
                    => i = 2 /\ Calls(trace)[1].k = <<"_resolve">>
    /\ \A i \in 1..Len(trace) :
          (/\ last.op \in Wrappers
           /\ trace[i].ev = "call" /\ trace[i].k = <<"_resolve">>
           /\ i < Len(trace) /\ trace[i + 1].ev = "except")
              => /\ Len(Calls(trace)) = 1
                 /\ StatusCodeOf(last.a) = FAILED

----------------------------------------------------------------------------
(* C17 *)

EventOfCode(code) ==
    CASE code = FAILED -> "Failed"
      [] code = RUNNING -> "Running"
      [] code = COMPLETE -> "Complete"

\* C17: every write of an action's StatusCode is preceded, in the same
\* operation, by the dispatch of every hook listening for the event of
\* the status written; the skip path of execute(), which writes complete,
\* included.
C17_HooksBeforeWrite ==
    \A i \in 1..Len(trace) :
        (trace[i].ev = "write"
         /\ trace[i].k = defs[last.a].Label \o <<"/", "StatusCode">>)
            => \A h \in Listening(defs[last.a], EventOfCode(trace[i].v)) :
                  \E j \in 1..(i - 1) : trace[j].ev = "hook" /\ trace[j].n = h

----------------------------------------------------------------------------
(* C18 *)

\* the hook's Parameters.On<event> bundle, or an empty one
Bundle(hook, event) ==
    IF "Parameters" \in DOMAIN hook /\ ("On" \o event) \in DOMAIN hook.Parameters
    THEN hook.Parameters["On" \o event]
    ELSE EmptyParameters

\* the identity the hook declares for the event: the one of the bundle,
\* otherwise the one at the hook's root
DeclaredIdentity(hook, event) ==
    IF "Identity" \in DOMAIN Bundle(hook, event)
    THEN Str(Bundle(hook, event).Identity)
    ELSE IF "Identity" \in DOMAIN hook THEN Str(hook.Identity) ELSE None

\* C18: a dispatched status hook that declares Status in its
\* Parameters.On<event> bundle and an Identity in that bundle or at the
\* hook's root makes, before the next hook is dispatched, an update_status
\* call addressed to that identity.
C18_IdentityFromBundleOrRoot ==
    last.op \in Setters
        => \A i \in 1..Len(trace) :
              LET hook == defs[last.a].LifecycleHooks[trace[i].n]
                  event == EventOf(last.op)
              IN  (/\ trace[i].ev = "hook"
                   /\ hook.Type = "status"
                   /\ "Status" \in DOMAIN Bundle(hook, event)
                   /\ DeclaredIdentity(hook, event) # None)
                      => \E j \in (i + 1)..Len(trace) :
                            /\ trace[j].ev = "update_status"
                            /\ trace[j].k = DeclaredIdentity(hook, event).v
                            /\ \A k \in (i + 1)..(j - 1) : trace[k].ev # "hook"

----------------------------------------------------------------------------
(* C19 *)

Dispatched(t) == Events(t, {"hook"})

\* C19 as stated: a setter that is not suppressed dispatches exactly the
\* hooks listening for its event, each once, in declaration order.
C19_ExactlyTheListeners ==
    (last.op \in Setters /\ trace # << >>)
        => DispatchedOnce(trace, Listening(defs[last.a], EventOf(last.op)))

\* C19, amended: a setter that is not suppressed dispatches hooks listening
\* for its event (Failed for set_failed, Running for set_running, Complete
\* for set_complete) and no other, in declaration order, each at most
\* once and none passed over; when it returns it has dispatched all of
\* them; it stops at the first dispatched hook whose Type is not "status",
\* which raises: the listening hooks declared after that one are not
\* dispatched and nothing is written.
C19_ListenersInOrder ==
    (last.op \in Setters /\ trace # << >>)
        => LET h == Dispatched(trace)
               L == Listening(defs[last.a], EventOf(last.op))
           IN  /\ \A i \in 1..Len(h) :
                     /\ h[i].n \in L
                     /\ h[i].k = <<EventOf(last.op)>>
                     /\ \A l \in L : l < h[i].n => \E j \in 1..(i - 1) : h[j].n = l
               /\ \A i, j \in 1..Len(h) : i < j => h[i].n < h[j].n
               /\ last.exc = NoExc => {h[i].n : i \in 1..Len(h)} = L
               /\ last.exc # NoExc
                     => /\ h # << >>
                        /\ defs[last.a].LifecycleHooks[h[Len(h)].n].Type # "status"
                        /\ Events(trace, {"write"}) = << >>

\* a set_complete that returned, by an action whose first hook does not
\* listen for Complete and whose second does: only the second is dispatched
C19_Witness ==
    /\ last.op = "set_complete" /\ last.exc = NoExc
    /\ Len(defs[last.a].LifecycleHooks) = 2
    /\ Len(Dispatched(trace)) = 1
    /\ Dispatched(trace)[1].n = 2

----------------------------------------------------------------------------
(* C20 *)

\* C20: duplicate suppression looks at the stored state and reason only.
\* A setter call whose target state is the stored StatusCode and whose
\* reason is the stored StatusReason dispatches no hook, writes nothing
\* and leaves the Context as it is, whatever the Context holds by then;
\* a call with the same target state and another reason dispatches the
\* listening hooks again and, when it returns, has dispatched them all
\* and stored the new reason.
C20_SuppressedByReasonOnly ==
    [][\A a \in RunActions :
          (last'.a = a /\ last'.op \in Setters
           /\ StatusCodeOf(a) = TargetOf(last'.op)) =>
              LET L == Listening(defs[a], EventOf(last'.op))
              IN  IF StatusReasonOf(a) = last'.arg
                  THEN /\ trace' = << >>
                       /\ last'.exc = NoExc
                       /\ View(a)' = View(a)
                  ELSE /\ L # {} => Dispatched(trace') # << >>
                       /\ last'.exc = NoExc
                             => /\ DispatchedOnce(trace', L)
                                /\ StatusCodeOf(a)' = TargetOf(last'.op)
                                /\ StatusReasonOf(a)' = last'.arg]_vars

\* a suppressed set_running, made right after set_state changed the state
\* variable that the Status and Message templates of a Running hook read
\* (a suppressed call that does not repeat the operation before it
\* follows a set_state: another setter call would have changed the stored
\* state or reason)
C20_Witness ==
    /\ last.op = "set_running" /\ last.again = "no" /\ trace = << >>
    /\ defs[last.a].LifecycleHooks[1] = HookTemplated
    /\ Has(View(last.a), TemplateKey)
    /\ StatusCodeOf(last.a) = RUNNING
    /\ StatusReasonOf(last.a) = last.arg

----------------------------------------------------------------------------
(* C21 *)

\* the listening hooks of a type other than "status"
Unsupported(d, event) ==
    {i \in Listening(d, event) : d.LifecycleHooks[i].Type # "status"}

\* C21: a selected hook whose Type is not "status" is a hard error of the
\* dispatch, which precedes the status write.  A setter call that is not
\* suppressed and has such a hook among those listening for its event
\* raises; it dispatches the listening hooks up to the first such hook,
\* in order, and none after it; it writes nothing and the Context is as
\* before the call; the calls the earlier hooks made to the collaborator
\* stand, and nothing happens after the raise.  A setter raises in no
\* other case.
C21_HardErrorBeforeWrite ==
    [][\A a \in RunActions :
          (last'.a = a /\ last'.op \in Setters) =>
              LET event == EventOf(last'.op)
                  L == Listening(defs[a], event)
                  U == Unsupported(defs[a], event)
                  suppressed == /\ StatusCodeOf(a) = TargetOf(last'.op)
                                /\ StatusReasonOf(a) = last'.arg
                  first == CHOOSE u \in U : \A v \in U : u <= v
                  h == Dispatched(trace')
              IN  IF U # {} /\ ~suppressed
                  THEN /\ last'.exc = Exc("Exception", <<"Unsupported hook type ",
                                              defs[a].LifecycleHooks[first].Type>>)
                       /\ {h[i].n : i \in 1..Len(h)} = {l \in L : l <= first}
                       /\ \A i, j \in 1..Len(h) : i < j => h[i].n < h[j].n
                       /\ trace'[Len(trace')] = h[Len(h)]
                       /\ Events(trace', {"write"}) = << >>
                       /\ View(a)' = View(a)
                       /\ \A l \in L :
                             (l < first /\ ~Unresolved(defs[a].LifecycleHooks[l], event, View(a)))
                                 => \E i \in 1..Len(trace') :
                                       trace'[i].ev = "update_status" /\ trace'[i].ok
                  ELSE last'.exc = NoExc]_vars

\* a set_failed that raised on the second of three hooks listening for
\* Failed: the first had sent its updates, the third was not dispatched,
\* and no status is stored
C21_Witness ==
    /\ last.op = "set_failed" /\ last.exc # NoExc
    /\ Listening(defs[last.a], "Failed") = {1, 2, 3}
    /\ Len(Dispatched(trace)) = 2
    /\ \E i \in 1..Len(trace) : trace[i].ev = "update_status" /\ trace[i].ok
    /\ StatusCodeOf(last.a) = PENDING

----------------------------------------------------------------------------
(* C22 *)

\* "m - r", r, m or the empty string
Combined(m, r) ==
    IF m # << >> /\ r # << >> THEN m \o <<" - ">> \o r
    ELSE IF r # << >> THEN r
    ELSE m

\* the hook's message for the event, rendered in Context ctx; empty when
\* the hook declares none
RenderedMessage(hook, event, ctx) ==
    IF "Message" \in DOMAIN Bundle(hook, event)
    THEN Render(Bundle(hook, event).Message, ctx)
    ELSE << >>

\* C22: the message a status hook sends with its update_status is "m - r"
\* when its rendered message m and the transition's reason r are both
\* non-empty, r when only the reason is, m when only the message is, and
\* the empty string when neither is; it is never None.
C22_MessageAndReason ==
    [][\A a \in RunActions :
          (last'.a = a /\ last'.op \in Setters) =>
              \A i \in 1..Len(trace') :
                  (/\ trace'[i].ev = "hook"
                   /\ i + 2 <= Len(trace')
                   /\ trace'[i + 1].ev = "identity"
                   /\ trace'[i + 2].ev = "update_status")
                      => LET hook == defs[a].LifecycleHooks[trace'[i].n]
                             m == RenderedMessage(hook, EventOf(last'.op), View(a))
                             r == IF last'.arg = None THEN << >> ELSE last'.arg.v
                         IN  /\ trace'[i + 2].w # None
                             /\ trace'[i + 2].w = Str(Combined(m, r))]_vars

\* a set_failed with a reason, whose hook has a message: "m - r" is sent
C22_Witness ==
    /\ last.op = "set_failed" /\ last.arg = Str(<<"r1">>)
    /\ \E i \in 1..Len(trace) :
          /\ trace[i].ev = "update_status"
          /\ trace[i].w = Str(<<"component failed", " - ", "r1">>)

----------------------------------------------------------------------------
(* C23 *)

\* the step writes variable n of action a's state namespace
WritesState(a, n) ==
    last'.a = a /\ last'.op \in {"set_output", "set_state"} /\ last'.name = n

\* the step writes the key of variable n in action a's output namespace
WritesOutput(a, n) ==
    /\ last'.op = "set_output" /\ last'.name = n
    /\ defs[last'.a].SaveOutputs
    /\ OutputKeyOf(defs[last'.a], n) = OutputKeyOf(defs[a], n)

\* C23: an action reads back the outputs it wrote.  set_output(n, v)
\* leaves v under the state key of n and, with output visibility enabled,
\* under the output key of n; both stay as they are until a later write
\* to them; get_state(n) returns what the state key holds and, with
\* visibility enabled, get_output(n) what the output key holds: so a
\* get_state(n) or get_output(n) right after set_output(n, v) returns v.
\* With visibility disabled get_output returns None for every name,
\* touches nothing and does not raise.
C23_ReadBack ==
    [][\A a \in SharingActions : \A n \in Names :
          LET sk == StateKeyOf(defs[a], n)
              ok == OutputKeyOf(defs[a], n)
              reads == last'.a = a /\ last'.name = n
          IN  /\ (reads /\ last'.op = "set_output")
                    => /\ Has(View(a)', sk) /\ Get(View(a)', sk) = last'.arg
                       /\ defs[a].SaveOutputs
                             => Has(View(a)', ok) /\ Get(View(a)', ok) = last'.arg
              /\ (Has(View(a), sk) /\ ~WritesState(a, n))
                    => Has(View(a)', sk) /\ Get(View(a)', sk) = Get(View(a), sk)
              /\ (Has(View(a), ok) /\ ~WritesOutput(a, n))
                    => Has(View(a)', ok) /\ Get(View(a)', ok) = Get(View(a), ok)
              /\ (reads /\ last'.op = "get_state" /\ Has(View(a), sk))
                    => last'.exc = NoExc /\ last'.ret = Get(View(a), sk)
              /\ (reads /\ last'.op = "get_output" /\ defs[a].SaveOutputs
                  /\ Has(View(a), ok))
                    => last'.exc = NoExc /\ last'.ret = Get(View(a), ok)
              /\ (reads /\ last'.op = "get_output" /\ ~defs[a].SaveOutputs)
                    => /\ last'.exc = NoExc /\ last'.ret = None
                       /\ trace' = << >> /\ View(a)' = View(a)
              /\ (reads /\ last.op = "set_output" /\ last.a = a /\ last.name = n)
                    => /\ last'.op = "get_state"
                             => last'.exc = NoExc /\ last'.ret = last.arg
                       /\ (last'.op = "get_output" /\ defs[a].SaveOutputs)
                             => last'.exc = NoExc /\ last'.ret = last.arg]_vars

\* get_output, by an action with output visibility enabled, returning a
\* value that the action's state namespace holds too
C23_Witness ==
    /\ last.op = "get_output" /\ last.exc = NoExc /\ last.ret # None
    /\ defs[last.a].SaveOutputs
    /\ Has(View(last.a), StateKeyOf(defs[last.a], last.name))
    /\ Get(View(last.a), StateKeyOf(defs[last.a], last.name)) = last.ret

----------------------------------------------------------------------------
(* The concrete actions under execute() and check() *)

\* Variables of a SetVariables action: none; a literal; a template of a
\* value of the scheduler's dict and a literal; a literal and a template of
\* the state variable the first one is written to
VariablesLiteral == << <<<<"x">>, <<"1">>>> >>
VariablesSeeded ==
    << <<<<"x">>, Placeholder(SeedKey)>>, <<<<"y">>, <<"2">>>> >>
VariablesChained ==
    << <<<<"x">>, <<"1">>>>, <<<<"y">>, <<"is ">> \o Placeholder(TemplateKey)>> >>

VariablesCases == {<< >>, VariablesLiteral, VariablesSeeded, VariablesChained}

SetVariablesDefinitions ==
    {[Label |-> Label1, SaveOutputs |-> s, LifecycleHooks |-> h,
      Kind |-> "SetVariables", Params |-> [Variables |-> v]] :
        s \in BOOLEAN, h \in {<< >>, <<HookComponent>>}, v \in VariablesCases}

\* AccountsToShare of a DuplicateImage action: none, one, two
AccountsCases ==
    {<< >>, <<"123456789012">>, <<"123456789012", "123456789013">>}

\* its ImageName: a literal, a template of a value of the scheduler's dict
ImageNames == {<<"my-image-name">>, <<"image-">> \o Placeholder(SeedKey)}

DuplicateImageDefinitions ==
    {[Label |-> Label1, SaveOutputs |-> FALSE, LifecycleHooks |-> h,
      Kind |-> "DuplicateImage",
      Params |-> [Account |-> <<"154798051514">>, Region |-> <<"ap-southeast-1">>,
                  ImageName |-> n, AccountsToShare |-> xs]] :
        h \in {<< >>, <<HookBuild>>}, n \in ImageNames, xs \in AccountsCases}

\* what EC2 answers during _execute and during _check
ExecuteEnvs(self) ==
    IF self.Kind = "DuplicateImage"
    THEN {[images |-> x] : x \in {"error", "none", "nosnapshot", "denied", "image"}}
    ELSE {NoEnv}

CheckEnvs(self) ==
    IF self.Kind = "DuplicateImage"
    THEN {[images |-> x] : x \in {"error", "none", "available", "pending", "failed"}}
    ELSE {NoEnv}

InitConcrete ==
    InitWith([RunActions -> SetVariablesDefinitions \cup DuplicateImageDefinitions])

\* the frame an operation of an instance with params starts in
Begin(a, env) == [Start(a) EXCEPT !.params = defs[a].Params, !.env = env]

\* the end of such an operation: self.params stays as _resolve left it
Conclude(a, m, op, name, arg, ret) ==
    /\ Finish(a, m, op, name, arg, ret)
    /\ defs' = [defs EXCEPT ![a].Params = m.params]

RunExecute(a) ==
    \E cond \in CondOutcomes, env \in ExecuteEnvs(defs[a]) :
        Conclude(a, execute(Begin(a, env), {}, defs[a], cond),
                 "execute", <<env.images>>,
                 IF cond.exc = NoExc THEN Str(cond.val) ELSE None, None)

RunCheck(a) ==
    \E env \in CheckEnvs(defs[a]) :
        Conclude(a, check(Begin(a, env), {}, defs[a]),
                 "check", <<env.images>>, None, None)

NextConcrete == \E a \in RunActions : RunExecute(a) \/ RunCheck(a)

SpecConcrete == InitConcrete /\ [][NextConcrete]_vars

----------------------------------------------------------------------------
(* C24 *)

\* C24: execute() on a SetVariables action whose condition renders to
\* "true" leaves every declared variable, rendered, under its key of the
\* action's state namespace, and of the output namespace when output
\* visibility is enabled, and ends with StatusCode complete.
C24_VariablesSetAndComplete ==
    \A a \in RunActions :
        (/\ defs[a].Kind = "SetVariables"
         /\ last.op = "execute" /\ last.a = a
         /\ last.arg # None /\ Lower(last.arg.v) = TrueText)
            => /\ \A i \in DOMAIN defs[a].Params.Variables :
                     LET n == defs[a].Params.Variables[i][1]
                         v == Str(defs[a].Params.Variables[i][2])
                     IN  /\ Has(View(a), StateKeyOf(defs[a], n))
                         /\ Get(View(a), StateKeyOf(defs[a], n)) = v
                         /\ defs[a].SaveOutputs
                               => /\ Has(View(a), OutputKeyOf(defs[a], n))
                                  /\ Get(View(a), OutputKeyOf(defs[a], n)) = v
               /\ StatusCodeOf(a) = COMPLETE

----------------------------------------------------------------------------
(* C25 *)

\* the image id recorded by the _execute of action a
Registered(a) ==
    /\ defs[a].Kind = "DuplicateImage"
    /\ defs[a].Params.AccountsToShare # << >>
    /\ Has(View(a), StateKeyOf(defs[a], ImageIdWritten(defs[a].Params)))

\* C25: the state key under which _execute stores the created image id
\* is the key _check reads.  After an execute() that registered the image
\* (StatusCode running, the image id recorded), a check() that finds the
\* image traps no exception and ends with StatusCode complete when the
\* image is available, running when it is pending, failed otherwise.
C25_CheckFindsImageId ==
    [][\A a \in RunActions :
          (/\ last.op = "execute" /\ last.a = a /\ last.exc = NoExc
           /\ Registered(a) /\ StatusCodeOf(a) = RUNNING
           /\ last'.op = "check" /\ last'.a = a
           /\ last'.name[1] \in {"available", "pending", "failed"})
              => /\ ImageIdRead(defs[a].Params) = ImageIdWritten(defs[a].Params)
                 /\ Trapped(trace') = << >>
                 /\ StatusCodeOf(a)' =
                       CASE last'.name[1] = "available" -> COMPLETE
                         [] last'.name[1] = "pending" -> RUNNING
                         [] OTHER -> FAILED]_vars

====
